---- MODULE Spec2Model ----
(***************************************************************************)
(* A model of the graph canvas of teykamp/magic-functions.                 *)
(*                                                                         *)
(*  - useGraph / useDraggableGraph (src/unnamed/part_000): the node and    *)
(*    edge store and the press-move-release drag session.                  *)
(*  - getEdgeSchematic (src/src/useGraph/schematics/edge.ts): the pure     *)
(*    function that turns one edge into an arrow or a U-turn arrow.        *)
(*                                                                         *)
(* Numbers.  The store works on whole pixels.  getEdgeSchematic multiplies *)
(* by Math.cos / Math.sin of Math.atan2; the model keeps node positions on *)
(* a grid whose direction vectors are (1,0), (0,1) and (4,3) up to sign,   *)
(* so that every cosine and sine is a multiple of 1/5 and every computed   *)
(* coordinate is an exact multiple of 1/5 pixel.  Computed points are      *)
(* therefore held in fifths of a pixel (Fifths(v) = 5 * v), and the        *)
(* arithmetic is that of the reals, not of IEEE doubles.                   *)
(***************************************************************************)
EXTENDS Integers, Sequences, FiniteSets

VARIABLES
  nodes,             \* useGraph: nodes.value, a sequence of [id, x, y]
  edges,             \* useGraph: edges.value, a sequence of [from, to]
  nodeBeingDragged,  \* useDraggableGraph: the node reference held by a drag
  last,              \* history: the operation that produced this state
  gNodes,            \* getEdgeSchematic input: nodes, [id, label, x, y]
  gEdges,            \* getEdgeSchematic input: edges, [from, to] by label
  options,           \* getEdgeSchematic input: GraphOptions (nodeSize)
  drawn,             \* whether getEdgeSchematic has been applied to gEdges
  schematics,        \* the form getEdgeSchematic returned for each edge
  lasCalls           \* the arguments it passed to getLargestAngularSpace

storeVars == <<nodes, edges, nodeBeingDragged, last>>
schematicVars == <<gNodes, gEdges, options, drawn, schematics, lasCalls>>
vars == <<nodes, edges, nodeBeingDragged, last,
          gNodes, gEdges, options, drawn, schematics, lasCalls>>

(***************************************************************************)
(* Bounds of the model.                                                    *)
(***************************************************************************)
MaxNodes == 2      \* the store holds at most this many nodes
MaxEdges == 2      \* the store holds at most this many edges
NumGNodes == 3     \* nodes handed to getEdgeSchematic
MaxGEdges == 2     \* edges handed to getEdgeSchematic

(***************************************************************************)
(* The store: useGraph (part_000).                                         *)
(***************************************************************************)
nodeSize == 35

\* Coordinates the callers pass (addNode, moveNode) and the mouse reports.
\* (120,100) lies inside the circle of a node at (100,100) without being
\* its centre.
Points == {<<0, 0>>, <<100, 100>>}
MousePoints == Points \cup {<<120, 100>>}
\* Node ids the callers pass; 0 stands for an id that is absent (or 0):
\* both are falsy in `node.id || ...`.
IdArgs == 0..MaxNodes

Sq(v) == v * v

\* Array.prototype.findIndex / find on nodes.value by id: the first index
\* whose node has the id, 0 when there is none.
IndexOfId(ns, id) ==
  IF \E i \in DOMAIN ns : ns[i].id = id
  THEN CHOOSE i \in DOMAIN ns :
         ns[i].id = id /\ \A j \in DOMAIN ns : ns[j].id = id => i <= j
  ELSE 0

\* The value of `a || b` on numbers: a unless it is falsy (0, undefined).
OrElse(a, b) == IF a = 0 THEN b ELSE a

\* addNode's pushed record.
NewNode(ns, node) ==
  [id |-> OrElse(node.id, Len(ns) + 1),
   x  |-> OrElse(node.x, 100),
   y  |-> OrElse(node.y, 100)]

\* moveNode's effect on nodes.value.
MovedNodes(ns, id, x, y) ==
  LET i == IndexOfId(ns, id)
  IN IF i = 0 THEN ns ELSE [ns EXCEPT ![i].x = x, ![i].y = y]

\* getNodeByCoordinates: the first node whose centre is nearer than nodeSize
\* (Math.sqrt(d2) < nodeSize, taken as d2 < nodeSize squared); as an index
\* into nodes.value, 0 when there is none.
getNodeByCoordinates(ns, x, y) ==
  LET hit(i) == Sq(ns[i].x - x) + Sq(ns[i].y - y) < Sq(nodeSize)
  IN IF \E i \in DOMAIN ns : hit(i)
     THEN CHOOSE i \in DOMAIN ns : hit(i) /\ \A j \in DOMAIN ns : hit(j) => i <= j
     ELSE 0

\* nodes.value.splice(index, 1)
Splice(s, index) ==
  [i \in 1..(Len(s) - 1) |-> IF i < index THEN s[i] ELSE s[i + 1]]

\* removeNode's effect on nodes.value.
NodesWithout(ns, id) ==
  LET index == IndexOfId(ns, id)
  IN IF index # 0 THEN Splice(ns, index) ELSE ns

\* A variant of the filter that forgets the edges pointing at the node.
EdgesWithoutFromOnly(es, id) ==
  SelectSeq(es, LAMBDA edge : edge.from # id)

\* removeNode's filter of edges.value.
EdgesWithout(es, id) ==
  SelectSeq(es, LAMBDA edge : edge.from # id /\ edge.to # id)

\* removeEdge's filter of edges.value.
EdgesWithoutEdge(es, edge) ==
  SelectSeq(es, LAMBDA e : e.from # edge.from \/ e.to # edge.to)

(***************************************************************************)
(* nodeBeingDragged holds a reference to a node object, not a copy.  The   *)
(* model names the object by where it now sits in nodes.value: `at` is its *)
(* index, 0 once the object has been spliced out of the array (the         *)
(* reference then still reads the object's id).  Splicing renumbers the    *)
(* objects behind it, which Respliced follows.                             *)
(***************************************************************************)
NoDrag == [held |-> FALSE, at |-> 0, id |-> 0]

Respliced(ref, index) ==
  IF ~ref.held \/ index = 0 \/ ref.at = 0 \/ ref.at < index THEN ref
  ELSE IF ref.at = index THEN [ref EXCEPT !.at = 0]
  ELSE [ref EXCEPT !.at = ref.at - 1]

\* The history record: the operation, and for removeNode its id, the number
\* of nodes it spliced out and the number of edges it dropped.
Did(op, id, spliced, dropped) ==
  [op |-> op, id |-> id, spliced |-> spliced, dropped |-> dropped]

addNode(node) ==
  /\ Len(nodes) < MaxNodes
  /\ nodes' = Append(nodes, NewNode(nodes, node))
  /\ last' = Did("addNode", 0, 0, 0)
  /\ UNCHANGED <<edges, nodeBeingDragged>>
  /\ UNCHANGED schematicVars

moveNode(id, x, y) ==
  /\ nodes' = MovedNodes(nodes, id, x, y)
  /\ last' = Did("moveNode", 0, 0, 0)
  /\ UNCHANGED <<edges, nodeBeingDragged>>
  /\ UNCHANGED schematicVars

removeNode(id) ==
  /\ nodes' = NodesWithout(nodes, id)
  /\ edges' = EdgesWithout(edges, id)
  /\ nodeBeingDragged' = Respliced(nodeBeingDragged, IndexOfId(nodes, id))
  /\ last' = Did("removeNode", id, Len(nodes) - Len(nodes'),
                                 Len(edges) - Len(edges'))
  /\ UNCHANGED schematicVars

addEdge(edge) ==
  /\ Len(edges) < MaxEdges
  /\ edges' = Append(edges, edge)
  /\ last' = Did("addEdge", 0, 0, 0)
  /\ UNCHANGED <<nodes, nodeBeingDragged>>
  /\ UNCHANGED schematicVars

removeEdge(edge) ==
  /\ edges' = EdgesWithoutEdge(edges, edge)
  /\ last' = Did("removeEdge", 0, 0, 0)
  /\ UNCHANGED <<nodes, nodeBeingDragged>>
  /\ UNCHANGED schematicVars

(***************************************************************************)
(* The drag session: useDraggableGraph (part_000).                         *)
(***************************************************************************)
beginDrag(ev) ==
  LET node == getNodeByCoordinates(nodes, ev[1], ev[2])
  IN /\ nodeBeingDragged' =
          IF node # 0 THEN [held |-> TRUE, at |-> node, id |-> nodes[node].id]
          ELSE nodeBeingDragged
     /\ last' = Did("beginDrag", 0, 0, 0)
     /\ UNCHANGED <<nodes, edges>>
     /\ UNCHANGED schematicVars

endDrag ==
  /\ nodeBeingDragged' = NoDrag
  /\ last' = Did("endDrag", 0, 0, 0)
  /\ UNCHANGED <<nodes, edges>>
  /\ UNCHANGED schematicVars

drag(ev) ==
  /\ nodes' = IF ~nodeBeingDragged.held THEN nodes
              ELSE MovedNodes(nodes, nodeBeingDragged.id, ev[1], ev[2])
  /\ last' = Did("drag", 0, 0, 0)
  /\ UNCHANGED <<edges, nodeBeingDragged>>
  /\ UNCHANGED schematicVars

NodeArgs == [id : IdArgs, x : {p[1] : p \in Points}, y : {p[2] : p \in Points}]
EdgeArgs == [from : 1..MaxNodes, to : 1..MaxNodes]

StoreInit ==
  /\ nodes = <<>>
  /\ edges = <<>>
  /\ nodeBeingDragged = NoDrag
  /\ last = Did("init", 0, 0, 0)

SchematicIdle ==
  /\ gNodes = <<>>
  /\ gEdges = <<>>
  /\ options = [nodeSize |-> [kind |-> "const", value |-> nodeSize]]
  /\ drawn = FALSE
  /\ schematics = <<>>
  /\ lasCalls = <<>>

Init == StoreInit /\ SchematicIdle

Next ==
  \/ \E node \in NodeArgs : addNode(node)
  \/ \E id \in 1..MaxNodes, p \in Points : moveNode(id, p[1], p[2])
  \/ \E id \in 1..MaxNodes : removeNode(id)
  \/ \E edge \in EdgeArgs : addEdge(edge)
  \/ \E edge \in EdgeArgs : removeEdge(edge)

\* useGraph on its own.
Spec == Init /\ [][Next]_vars

NextDraggable ==
  \/ Next
  \/ \E ev \in MousePoints : beginDrag(ev)
  \/ endDrag
  \/ \E ev \in MousePoints : drag(ev)

\* useDraggableGraph: the store plus the mouse listeners.
SpecDraggable == Init /\ [][NextDraggable]_vars


(***************************************************************************)
(* getEdgeSchematic (schematics/edge.ts).                                  *)
(***************************************************************************)
lineSpacing == 12
upDistance == 80
downDistance == 25

\* Node positions handed to getEdgeSchematic: a 3-4-5 triangle, so that the
\* directions between nodes are horizontal, vertical and (4,3)/5.
Grid == {<<0, 0>>, <<100, 0>>, <<100, 75>>}
Labels == 1..NumGNodes

\* A GNode: its label is the key edges use, its id is a separate field.
GNode(label, p) == [id |-> 10 * label, label |-> label, x |-> p[1], y |-> p[2]]

\* options.nodeSize is a constant or a function of the node.
NodeSizeOptions ==
  {[kind |-> "const", value |-> nodeSize],
   [kind |-> "fn", of |-> [l \in Labels |-> 25 + 10 * l]]}

\* getValue (useGraphHelpers): a constant as it is, a function applied.
getValue(option, arg) ==
  IF option.kind = "const" THEN option.value ELSE option.of[arg.label]

\* Array.prototype.find by label: the first node carrying the label.
NodeByLabel(ns, label) ==
  ns[CHOOSE i \in DOMAIN ns :
       ns[i].label = label /\ \A j \in DOMAIN ns : ns[j].label = label => i <= j]

\* getFromToNodes (useGraphHelpers): the nodes an edge's labels resolve to.
getFromToNodes(edge, ns) ==
  [from |-> NodeByLabel(ns, edge.from), to |-> NodeByLabel(ns, edge.to)]

Abs(v) == IF v < 0 THEN -v ELSE v

RECURSIVE Gcd(_, _)
Gcd(a, b) == IF b = 0 THEN a ELSE Gcd(b, a % b)

\* Math.atan2(dy, dx).  An angle is held as the shortest integer vector
\* that points along it; Math.atan2(0, 0) is 0, the direction (1, 0).
Atan2(dy, dx) ==
  IF dx = 0 /\ dy = 0 THEN [x |-> 1, y |-> 0]
  ELSE LET g == Gcd(Abs(dx), Abs(dy))
       IN [x |-> dx \div g, y |-> dy \div g]

\* The length of a direction vector; whole on the model's grid.
Norm(a) == CHOOSE n \in 1..(Abs(a.x) + Abs(a.y)) : n * n = Sq(a.x) + Sq(a.y)

\* Pixels as fifths of a pixel.
Fifths(v) == 5 * v

\* Math.cos and Math.sin, in fifths.
Cos(a) == Fifths(a.x) \div Norm(a)
Sin(a) == Fifths(a.y) \div Norm(a)

\* angle + Math.PI / 2
PlusHalfPi(a) == [x |-> -a.y, y |-> a.x]

isBidirectional(from, to, es) ==
  \E i \in DOMAIN es : es[i].from = to.label /\ es[i].to = from.label

\* A variant that takes two nodes on the same point for one node.
isSelfDirectingByPosition(from, to) == to.x = from.x /\ to.y = from.y

\* `to === from`: the two labels resolved to one node object; nodes carry
\* their own id and label, so equal records are the same object.
isSelfDirecting(from, to) == to = from

\* A variant that sizes the clearance by the source node.
nodeSizeValOfSource(opts, from, to) == getValue(opts.nodeSize, from) + 10

nodeSizeVal(opts, from, to) == getValue(opts.nodeSize, to) + 10

\* Math.atan2(to.y - from.y, to.x - from.x)
edgeAngle(from, to) == Atan2(to.y - from.y, to.x - from.x)

epiCenter(to, sizeVal, angle) ==
  [x |-> Fifths(to.x) - sizeVal * Cos(angle),
   y |-> Fifths(to.y) - sizeVal * Sin(angle)]

\* A variant that forgets the quarter turn and shifts along the edge.
laneOffsetAlongEdge(angle) ==
  [x |-> Cos(angle) * lineSpacing, y |-> Sin(angle) * lineSpacing]

\* What `if (isBidirectional)` adds to start and to end.
laneOffset(angle) ==
  [x |-> Cos(PlusHalfPi(angle)) * lineSpacing,
   y |-> Sin(PlusHalfPi(angle)) * lineSpacing]

Plus(p, q) == [x |-> p.x + q.x, y |-> p.y + q.y]

edgeStart(from, to, es) ==
  LET start == [x |-> Fifths(from.x), y |-> Fifths(from.y)]
  IN IF isBidirectional(from, to, es)
     THEN Plus(start, laneOffset(edgeAngle(from, to))) ELSE start

edgeEnd(from, to, es, opts) ==
  LET end == epiCenter(to, nodeSizeVal(opts, from, to), edgeAngle(from, to))
  IN IF isBidirectional(from, to, es)
     THEN Plus(end, laneOffset(edgeAngle(from, to))) ELSE end

\* A variant of the filter without `e.from !== e.to`.
occupiedPointsWithLoops(from, to, ns, es) ==
  LET incident == SelectSeq(es, LAMBDA e : e.from = from.label \/ e.to = to.label)
  IN [i \in 1..Len(incident) |->
        LET ft == getFromToNodes(incident[i], ns)
        IN IF from.id = ft.from.id
           THEN [x |-> Fifths(ft.to.x), y |-> Fifths(ft.to.y)]
           ELSE [x |-> Fifths(ft.from.x), y |-> Fifths(ft.from.y)]]

\* The second argument of the getLargestAngularSpace call: filter, then map
\* (in fifths of a pixel, like the origin).
occupiedPoints(from, to, ns, es) ==
  LET incident ==
        SelectSeq(es, LAMBDA e : (e.from = from.label \/ e.to = to.label)
                                   /\ e.from # e.to)
  IN [i \in 1..Len(incident) |->
        LET ft == getFromToNodes(incident[i], ns)
        IN IF from.id = ft.from.id
           THEN [x |-> Fifths(ft.to.x), y |-> Fifths(ft.to.y)]
           ELSE [x |-> Fifths(ft.from.x), y |-> Fifths(ft.from.y)]]

\* The getLargestAngularSpace call getEdgeSchematic makes for an edge.
largestAngularSpaceCall(edge, ns, es) ==
  LET ft == getFromToNodes(edge, ns)
  IN [origin |-> edgeStart(ft.from, ft.to, es),
      points |-> occupiedPoints(ft.from, ft.to, ns, es)]

(***************************************************************************)
(* getLargestAngularSpace (shapes/helpers): the angle that bisects the     *)
(* largest gap between the directions from origin to the points, a fixed   *)
(* default when there are none.  The result is a function of the set of    *)
(* those directions alone, and the model names it by that set: equal       *)
(* values here are equal angles.  With a single occupied direction the     *)
(* angle is the opposite direction, so two results that name different     *)
(* single directions are different angles.                                 *)
(***************************************************************************)
getLargestAngularSpace(origin, points) ==
  [bisectsLargestGapOf |->
     {Atan2(points[i].y - origin.y, points[i].x - origin.x) : i \in DOMAIN points}]

getEdgeSchematic(edge, ns, es, opts) ==
  LET ft == getFromToNodes(edge, ns)
      from == ft.from
      to == ft.to
      call == largestAngularSpaceCall(edge, ns, es)
      selfDirectedEdgeLine ==
        [form |-> "uturn",
         spacing |-> lineSpacing,
         center |-> [x |-> Fifths(from.x), y |-> Fifths(from.y)],
         upDistance |-> upDistance,
         downDistance |-> downDistance,
         angle |-> getLargestAngularSpace(call.origin, call.points)]
      edgeLine ==
        [form |-> "arrow",
         start |-> edgeStart(from, to, es),
         end |-> edgeEnd(from, to, es, opts)]
  IN IF isSelfDirecting(from, to) THEN selfDirectedEdgeLine ELSE edgeLine

\* getEdgeSchematic applied to every edge of the list.
ApplyGetEdgeSchematic ==
  /\ ~drawn
  /\ gEdges # <<>>
  /\ drawn' = TRUE
  /\ schematics' = [i \in DOMAIN gEdges |->
                      getEdgeSchematic(gEdges[i], gNodes, gEdges, options)]
  /\ lasCalls' = [i \in DOMAIN gEdges |->
                    largestAngularSpaceCall(gEdges[i], gNodes, gEdges)]
  /\ UNCHANGED <<gNodes, gEdges, options>>
  /\ UNCHANGED storeVars

SchematicInit ==
  /\ StoreInit
  /\ gNodes \in {[l \in Labels |-> GNode(l, pos[l])] : pos \in [Labels -> Grid]}
  /\ \E n \in 0..MaxGEdges :
       gEdges \in [1..n -> [from : Labels, to : Labels]]
  /\ options \in [nodeSize : NodeSizeOptions]
  /\ drawn = FALSE
  /\ schematics = <<>>
  /\ lasCalls = <<>>

SchematicNext == ApplyGetEdgeSchematic

\* getEdgeSchematic over every placement of the nodes on the grid, every
\* edge list up to MaxGEdges and both kinds of nodeSize option.
SpecSchematic == SchematicInit /\ [][SchematicNext]_vars

(***************************************************************************)
(* Claims about the store and the drag session.                            *)
(***************************************************************************)
HasId(ns, id) == \E i \in DOMAIN ns : ns[i].id = id

\* The elements of s at the indices in keep, in their original order.
IsRestriction(t, s, keep) ==
  /\ Len(t) = Cardinality(keep)
  /\ \A i \in keep : t[Cardinality({k \in keep : k <= i})] = s[i]

C6_ReferentialIntegrity ==
  \A i \in DOMAIN edges : HasId(nodes, edges[i].from) /\ HasId(nodes, edges[i].to)

\* C7: no two nodes of the store have the same id, and moveNode changes no
\* node's id.
C7_NodeIdsUniqueAndStable ==
  [][/\ \A i, j \in DOMAIN nodes' : nodes'[i].id = nodes'[j].id => i = j
     /\ last'.op = "moveNode" =>
          /\ Len(nodes') = Len(nodes)
          /\ \A i \in DOMAIN nodes : nodes'[i].id = nodes[i].id
    ]_vars

\* C9: a mousemove changes a node only while a drag is held, and then only
\* the node that was pressed; a mouseup leaves no drag held, and without a
\* drag held a mousemove changes nothing.
C9_DragMovesOnlyThePressedNode ==
  [][/\ last'.op = "drag" =>
          /\ Len(nodes') = Len(nodes)
          /\ \A i \in DOMAIN nodes :
               nodes'[i] # nodes[i] =>
                 nodeBeingDragged.held /\ nodeBeingDragged.at = i
     /\ last'.op = "endDrag" => ~nodeBeingDragged'.held
    ]_vars

\* C10: while the drag holds a node that has been removed from the store, a
\* mousemove changes no node of the store.
C10_StaleDragMovesNothing ==
  [][(/\ last'.op = "drag"
      /\ nodeBeingDragged.held
      /\ nodeBeingDragged.at = 0) => nodes' = nodes
    ]_vars


(***************************************************************************)
(* Claims about getEdgeSchematic.                                          *)
(***************************************************************************)
\* A node's position in fifths of a pixel, by label.
PosOf(label) ==
  LET n == CHOOSE m \in {gNodes[i] : i \in DOMAIN gNodes} : m.label = label
  IN [x |-> Fifths(n.x), y |-> Fifths(n.y)]

Minus(p, q) == [x |-> p.x - q.x, y |-> p.y - q.y]
Cross(p, q) == p.x * q.y - p.y * q.x
Dot(p, q) == p.x * q.x + p.y * q.y

\* nodeSize(to) + 10, in fifths of a pixel.
Clearance(label) ==
  Fifths(10 + (IF options.nodeSize.kind = "const"
               THEN options.nodeSize.value
               ELSE options.nodeSize.of[label]))

HasReverse(i) ==
  \E k \in DOMAIN gEdges :
    gEdges[k].from = gEdges[i].to /\ gEdges[k].to = gEdges[i].from

\* C1: an edge gets the U-turn form exactly when its from and to name the
\* same node, and the arrow form otherwise, wherever the nodes lie.
C1_OneFormPerEdge ==
  drawn =>
    \A i \in DOMAIN gEdges :
      /\ schematics[i].form \in {"uturn", "arrow"}
      /\ schematics[i].form = "uturn" <=> gEdges[i].from = gEdges[i].to

\* A self-loop drawn as a U-turn beside an edge between two distinct nodes
\* that lie on the same point, drawn as an arrow.
C1_Witness ==
  /\ drawn
  /\ \E i, j \in DOMAIN gEdges :
       /\ gEdges[i].from = gEdges[i].to
       /\ schematics[i].form = "uturn"
       /\ gEdges[j].from # gEdges[j].to
       /\ PosOf(gEdges[j].from) = PosOf(gEdges[j].to)
       /\ schematics[j].form = "arrow"

\* The end of arrow i lies on the line from its start toward the destination,
\* at nodeSize(to) + 10 from the destination's centre.
EndAtClearance(i) ==
  LET s == schematics[i]
      dest == PosOf(gEdges[i].to)
  IN /\ Sq(s.end.x - dest.x) + Sq(s.end.y - dest.y) = Sq(Clearance(gEdges[i].to))
     /\ Cross(Minus(s.end, s.start), Minus(dest, s.start)) = 0
     /\ Dot(Minus(dest, s.end), Minus(dest, s.start)) >= 0

\* C2, as stated: every edge that is not a self-loop, with or without a
\* reverse edge, ends on the line from its start toward the destination at
\* nodeSize(to) + 10 from the destination's centre.
C2_EndAtClearanceAlways ==
  drawn =>
    \A i \in DOMAIN gEdges :
      gEdges[i].from # gEdges[i].to => EndAtClearance(i)

\* C2, amended: that holds of the edges without a reverse edge, whose start
\* is the source's centre (A(0,0), B(100,0), nodeSize 35: end (55,0), start
\* (0,0)); with a reverse edge the end is moved lineSpacing sideways from
\* that point, so it lies at sqrt((nodeSize(to) + 10)^2 + 12^2) from the
\* destination's centre.
C2_EndAtClearanceUnlessReversed ==
  drawn =>
    \A i \in DOMAIN gEdges :
      gEdges[i].from # gEdges[i].to =>
        LET s == schematics[i]
            src == PosOf(gEdges[i].from)
            dest == PosOf(gEdges[i].to)
        IN IF HasReverse(i)
           THEN /\ Sq(s.end.x - dest.x) + Sq(s.end.y - dest.y)
                     = Sq(Clearance(gEdges[i].to)) + Sq(Fifths(lineSpacing))
                /\ Sq(s.start.x - src.x) + Sq(s.start.y - src.y)
                     = Sq(Fifths(lineSpacing))
                /\ Cross(Minus(s.end, s.start), Minus(dest, src)) = 0
           ELSE /\ EndAtClearance(i)
                /\ s.start = src
                /\ (/\ src = [x |-> 0, y |-> 0]
                    /\ dest = [x |-> Fifths(100), y |-> 0]
                    /\ Clearance(gEdges[i].to) = Fifths(45))
                   => s.end = [x |-> Fifths(55), y |-> 0]

\* A single edge from a node at (0,0) to a node at (100,0) of nodeSize 35,
\* drawn, and ending at (55,0).
C2_Witness ==
  /\ drawn
  /\ Len(gEdges) = 1
  /\ gEdges[1].from # gEdges[1].to
  /\ PosOf(gEdges[1].from) = [x |-> 0, y |-> 0]
  /\ PosOf(gEdges[1].to) = [x |-> Fifths(100), y |-> 0]
  /\ Clearance(gEdges[1].to) = Fifths(45)
  /\ schematics[1].end = [x |-> Fifths(55), y |-> 0]

\* Edges i and j run in two lanes: each start is moved lineSpacing off its
\* source's centre, at a right angle to the line between the two nodes and
\* to opposite sides, each end is moved like its start, and the two lanes
\* lie on different parallels (on a horizontal line the starts and ends are
\* moved by +12 and -12 in y).
OppositeLanes(i, j) ==
  LET a == PosOf(gEdges[i].from)
      b == PosOf(gEdges[i].to)
      si == schematics[i]
      sj == schematics[j]
      oi == Minus(si.start, a)
      oj == Minus(sj.start, b)
  IN /\ si.form = "arrow" /\ sj.form = "arrow"
     /\ Sq(oi.x) + Sq(oi.y) = Sq(Fifths(lineSpacing))
     /\ oj = [x |-> -oi.x, y |-> -oi.y]
     /\ Dot(oi, Minus(b, a)) = 0
     /\ Cross(Minus(si.end, si.start), Minus(b, a)) = 0
     /\ Cross(Minus(sj.end, sj.start), Minus(b, a)) = 0
     /\ Cross(Minus(sj.start, si.start), Minus(b, a)) # 0
     /\ Cross(Minus(sj.end, si.start), Minus(b, a)) # 0
     /\ a.y = b.y =>
          /\ {oi.y, oj.y} = {Fifths(lineSpacing), -Fifths(lineSpacing)}
          /\ {si.end.y - b.y, sj.end.y - a.y}
               = {Fifths(lineSpacing), -Fifths(lineSpacing)}

IsReversePair(i, j) ==
  /\ gEdges[i].from # gEdges[i].to
  /\ gEdges[j].from = gEdges[i].to
  /\ gEdges[j].to = gEdges[i].from

\* C3, as stated: whenever the list holds (A,B) and (B,A) with A # B, the two
\* arrows run in opposite lanes that share no point.
C3_ReversePairInOppositeLanes ==
  drawn =>
    \A i, j \in DOMAIN gEdges : IsReversePair(i, j) => OppositeLanes(i, j)

\* C3, amended: that holds whenever A and B do not lie on the same point.
C3_ReversePairApartInOppositeLanes ==
  drawn =>
    \A i, j \in DOMAIN gEdges :
      (IsReversePair(i, j) /\ PosOf(gEdges[i].from) # PosOf(gEdges[i].to))
        => OppositeLanes(i, j)

\* A drawn reverse pair between two nodes apart on a horizontal line, its
\* two starts moved by +12 and -12 in y.
C3_Witness ==
  /\ drawn
  /\ \E i, j \in DOMAIN gEdges :
       /\ IsReversePair(i, j)
       /\ PosOf(gEdges[i].from).x # PosOf(gEdges[i].to).x
       /\ PosOf(gEdges[i].from).y = PosOf(gEdges[i].to).y
       /\ schematics[i].start.y - PosOf(gEdges[i].from).y = Fifths(lineSpacing)
       /\ schematics[j].start.y - PosOf(gEdges[j].from).y = -Fifths(lineSpacing)
       /\ OppositeLanes(i, j)

\* C4: the angle of a self-loop's U-turn is getLargestAngularSpace taken from
\* the node's own position, the centre of the form.
C4_SelfLoopAngleFromCentre ==
  drawn =>
    \A i \in DOMAIN gEdges :
      gEdges[i].from = gEdges[i].to =>
        schematics[i].angle =
          getLargestAngularSpace(schematics[i].center, lasCalls[i].points)

\* The endpoint of edge k that is not the node n.
OtherEnd(k, n) ==
  IF gEdges[k].from = n THEN PosOf(gEdges[k].to) ELSE PosOf(gEdges[k].from)

\* C8: for a self-loop on node n, the points handed to getLargestAngularSpace
\* are, in the order of the edge list, one per edge that touches n and is no
\* self-loop: the position of that edge's other endpoint.
C8_OccupiedDirections ==
  drawn =>
    \A i \in DOMAIN gEdges :
      gEdges[i].from = gEdges[i].to =>
        LET n == gEdges[i].from
            touching == {k \in DOMAIN gEdges :
                           /\ gEdges[k].from # gEdges[k].to
                           /\ gEdges[k].from = n \/ gEdges[k].to = n}
        IN IsRestriction(lasCalls[i].points,
                         [k \in DOMAIN gEdges |-> OtherEnd(k, n)], touching)

\* A drawn self-loop on a node that another node's edge points at: one
\* occupied direction, the position of that other node.
C8_Witness ==
  /\ drawn
  /\ \E i, k \in DOMAIN gEdges :
       /\ gEdges[i].from = gEdges[i].to
       /\ gEdges[k].to = gEdges[i].from
       /\ gEdges[k].from # gEdges[i].from
       /\ lasCalls[i].points = <<PosOf(gEdges[k].from)>>

====
